---- MODULE Spec2Model ----
(***************************************************************************)
(* Model of src/feature_pipeline/preprocess.py: city normalisation, the    *)
(* lat/lng merge against the module-level metros table, keep-none          *)
(* duplicate removal, the price-outlier filter, and the per-split runner.  *)
(*                                                                         *)
(* A string is a sequence of characters, a character a one-symbol string.  *)
(* The en dash (U+2013) is written "EN", the em dash (U+2014) "EM" and the *)
(* tab "TAB".  A cell of a DataFrame is NA (pandas NaN) or Val(v).         *)
(* A DataFrame is a record [columns, index, rows]: the set of column       *)
(* names, the sequence of index labels and the sequence of rows, each row  *)
(* a function from the column names to cells.                              *)
(***************************************************************************)
EXTENDS FiniteSets, Integers, Sequences, TLC

VARIABLES
    s0,         \* SpecNormalize: the city value first drawn
    s,          \* SpecNormalize: a variant of s0 (case / dash / whitespace)
    metros,     \* the module-level metros DataFrame (line 61)
    arg,        \* SpecFn: the table as it was when the last call was made
    df,         \* SpecFn: the caller's table object after the last call
    ret,        \* SpecFn: what the last call returned, or a raised error
    op,         \* SpecFn: the function last called
    raw,        \* Spec: raw_dir, split name -> table read by read_csv, or Missing
    processed,  \* Spec: processed_dir, split name -> written table, or NoFile
    splits,     \* Spec: the sequence of split names given to run_preprocess
    pos,        \* Spec: position of run_preprocess's loop in splits
    status      \* Spec: "running", "done" (loop ended) or "raised" (error propagated)

vars == <<s0, s, metros, arg, df, ret, op, raw, processed, splits, pos, status>>

----------------------------------------------------------------------------
(* Cells and characters *)

NA == [na |-> TRUE]
Val(v) == [na |-> FALSE, v |-> v]
isna(c) == c.na

UpperCase == <<"A","B","C","D","E","F","G","H","I","J","K","L","M",
               "N","O","P","Q","R","S","T","U","V","W","X","Y","Z">>
LowerCase == <<"a","b","c","d","e","f","g","h","i","j","k","l","m",
               "n","o","p","q","r","s","t","u","v","w","x","y","z">>

Whitespace == {" ", "TAB"}
Dashes == {"-", "EN", "EM"}

IsSpace(c) == c \in Whitespace

\* the lower-case letter of each upper-case letter, and the reverse
ToLower == [c \in {UpperCase[k] : k \in 1..Len(UpperCase)} |->
              LowerCase[CHOOSE k \in 1..Len(UpperCase) : UpperCase[k] = c]]
ToUpper == [c \in {LowerCase[k] : k \in 1..Len(LowerCase)} |->
              UpperCase[CHOOSE k \in 1..Len(LowerCase) : LowerCase[k] = c]]

\* str.lower() on one character
LowerChar(c) == IF c \in DOMAIN ToLower THEN ToLower[c] ELSE c

\* str.upper() on one character
UpperChar(c) == IF c \in DOMAIN ToUpper THEN ToUpper[c] ELSE c

\* str.strip(): drop leading and trailing whitespace
RECURSIVE lstrip(_)
lstrip(str) ==
    IF str = <<>> THEN str
    ELSE IF IsSpace(Head(str)) THEN lstrip(Tail(str)) ELSE str
RECURSIVE rstrip(_)
rstrip(str) ==
    IF str = <<>> THEN str
    ELSE IF IsSpace(str[Len(str)]) THEN rstrip(SubSeq(str, 1, Len(str) - 1)) ELSE str
strip(str) == rstrip(lstrip(str))

\* str.lower()
lower(str) == [k \in 1..Len(str) |-> LowerChar(str[k])]

\* re.sub(r"[EN EM -]", "-", s): the class of en dash, em dash and hyphen
UnifyDashes(str) ==
    [k \in 1..Len(str) |-> IF str[k] \in Dashes THEN "-" ELSE str[k]]

\* re.sub(r"\s+", " ", s): every maximal whitespace run becomes one space
CollapseSpaces(str) ==
    LET marked == [k \in 1..Len(str) |->
                     IF ~IsSpace(str[k]) THEN str[k]
                     ELSE IF k > 1 /\ IsSpace(str[k-1]) THEN "" ELSE " "]
        Kept(c) == c # ""
    IN  SelectSeq(marked, Kept)

\* normalize_city without the strip() of line 84
normalize_city_no_strip(c) ==
    IF isna(c) THEN c
    ELSE Val(CollapseSpaces(UnifyDashes(lower(c.v))))
\* normalize_city (lines 80-87)
normalize_city(c) ==
    IF isna(c) THEN c
    ELSE Val(CollapseSpaces(UnifyDashes(lower(strip(c.v)))))

----------------------------------------------------------------------------
(* SpecNormalize: a city value and its case / dash / whitespace variants *)

MaxLen == 3
Alphabet == {"a", "A", "-", "EN", "EM", " ", "TAB"}

RECURSIVE StringsUpTo(_)
StringsUpTo(n) ==
    IF n = 0 THEN {<<>>}
    ELSE LET shorter == StringsUpTo(n - 1)
         IN  shorter \cup {Append(t, c) : t \in {u \in shorter : Len(u) = n - 1},
                                           c \in Alphabet}

InsertAt(str, k, c) == SubSeq(str, 1, k - 1) \o <<c>> \o SubSeq(str, k, Len(str))
RemoveAt(str, k) == SubSeq(str, 1, k - 1) \o SubSeq(str, k + 1, Len(str))

\* position k of str is in a whitespace run of length >= 2, or is leading/trailing
ShrinkableSpace(str, k) ==
    IF ~IsSpace(str[k]) THEN FALSE
    ELSE IF k = 1 \/ k = Len(str) THEN TRUE
    ELSE IsSpace(str[k-1]) \/ IsSpace(str[k+1])

\* a whitespace character put at slot k (before str[k]) lengthens a run or
\* adds leading/trailing whitespace
GrowableSlot(str, k) ==
    IF k = 1 \/ k = Len(str) + 1 THEN TRUE
    ELSE IsSpace(str[k-1]) \/ IsSpace(str[k])

OtherFields ==
    /\ metros = <<>> /\ arg = <<>> /\ df = <<>> /\ ret = <<>> /\ op = "none"
    /\ raw = <<>> /\ processed = <<>> /\ splits = <<>> /\ pos = 0 /\ status = "none"

InitNormalize ==
    /\ s0 \in {NA} \cup {Val(t) : t \in StringsUpTo(MaxLen)}
    /\ s = s0
    /\ OtherFields

ChangeCase ==
    /\ ~isna(s)
    /\ \E k \in 1..Len(s.v) :
         \E c \in {LowerChar(s.v[k]), UpperChar(s.v[k])} :
            /\ c # s.v[k]
            /\ s' = Val([s.v EXCEPT ![k] = c])
    /\ UNCHANGED <<s0, metros, arg, df, ret, op, raw, processed, splits, pos, status>>

ChangeDash ==
    /\ ~isna(s)
    /\ \E k \in 1..Len(s.v) :
         /\ s.v[k] \in Dashes
         /\ \E c \in Dashes \ {s.v[k]} : s' = Val([s.v EXCEPT ![k] = c])
    /\ UNCHANGED <<s0, metros, arg, df, ret, op, raw, processed, splits, pos, status>>

GrowSpace ==
    /\ ~isna(s)
    /\ Len(s.v) <= MaxLen
    /\ \E k \in 1..(Len(s.v) + 1) :
         /\ GrowableSlot(s.v, k)
         /\ \E c \in Whitespace : s' = Val(InsertAt(s.v, k, c))
    /\ UNCHANGED <<s0, metros, arg, df, ret, op, raw, processed, splits, pos, status>>

ShrinkSpace ==
    /\ ~isna(s)
    /\ \E k \in 1..Len(s.v) :
         /\ ShrinkableSpace(s.v, k)
         /\ s' = Val(RemoveAt(s.v, k))
    /\ UNCHANGED <<s0, metros, arg, df, ret, op, raw, processed, splits, pos, status>>

NextNormalize == ChangeCase \/ ChangeDash \/ GrowSpace \/ ShrinkSpace

SpecNormalize == InitNormalize /\ [][NextNormalize]_vars

\* C7: normalize_city gives the same output for any two city strings that
\* differ only in letter case, in the length of whitespace runs (leading and
\* trailing whitespace included) or in the dash character used, and it
\* returns a missing value unchanged.
C7_NormalizeVariantsAgree ==
    /\ normalize_city(s) = normalize_city(s0)
    /\ isna(s0) => normalize_city(s0) = NA

\* a variant that differs from the drawn string in case, dash and whitespace
C7_Witness ==
    /\ ~isna(s0) /\ ~isna(s)
    /\ Len(s.v) > Len(s0.v)
    /\ \E k \in 1..Len(s0.v) : s0.v[k] = "a"
    /\ \E k \in 1..Len(s0.v) : s0.v[k] = "EN"
    /\ \E k \in 1..Len(s.v) : s.v[k] = "A"
    /\ \E k \in 1..Len(s.v) : s.v[k] = "EM"
    /\ ~(\E k \in 1..Len(s.v) : s.v[k] = "EN")

----------------------------------------------------------------------------
(* Module-level tables (lines 28-77).  A coordinate is kept as the integer *)
(* number of ten-thousandths of a degree: 39.7392 is 397392.               *)

canonical_coords == <<
    \* "Atlanta-Sandy Springs-Roswell": (33.749, -84.388)
    [name |-> <<"A","t","l","a","n","t","a","-","S","a","n","d","y"," ","S","p","r","i","n","g","s","-","R","o","s","w","e","l","l">>,
     lat |-> 337490, lng |-> -843880],
    \* "Pittsburgh": (40.4406, -79.9959)
    [name |-> <<"P","i","t","t","s","b","u","r","g","h">>,
     lat |-> 404406, lng |-> -799959],
    \* "Boston-Cambridge-Newton": (42.3601, -71.0589)
    [name |-> <<"B","o","s","t","o","n","-","C","a","m","b","r","i","d","g","e","-","N","e","w","t","o","n">>,
     lat |-> 423601, lng |-> -710589],
    \* "Tampa-St. Petersburg-Clearwater": (27.9506, -82.4572)
    [name |-> <<"T","a","m","p","a","-","S","t","."," ","P","e","t","e","r","s","b","u","r","g","-","C","l","e","a","r","w","a","t","e","r">>,
     lat |-> 279506, lng |-> -824572],
    \* "Baltimore-Columbia-Towson": (39.2904, -76.6122)
    [name |-> <<"B","a","l","t","i","m","o","r","e","-","C","o","l","u","m","b","i","a","-","T","o","w","s","o","n">>,
     lat |-> 392904, lng |-> -766122],
    \* "Portland-Vancouver-Hillsboro": (45.5152, -122.6784)
    [name |-> <<"P","o","r","t","l","a","n","d","-","V","a","n","c","o","u","v","e","r","-","H","i","l","l","s","b","o","r","o">>,
     lat |-> 455152, lng |-> -1226784],
    \* "Philadelphia-Camden-Wilmington": (39.9526, -75.1652)
    [name |-> <<"P","h","i","l","a","d","e","l","p","h","i","a","-","C","a","m","d","e","n","-","W","i","l","m","i","n","g","t","o","n">>,
     lat |-> 399526, lng |-> -751652],
    \* "New York-Newark-Jersey City": (40.7128, -74.006)
    [name |-> <<"N","e","w"," ","Y","o","r","k","-","N","e","w","a","r","k","-","J","e","r","s","e","y"," ","C","i","t","y">>,
     lat |-> 407128, lng |-> -740060],
    \* "Chicago-Naperville-Elgin": (41.8781, -87.6298)
    [name |-> <<"C","h","i","c","a","g","o","-","N","a","p","e","r","v","i","l","l","e","-","E","l","g","i","n">>,
     lat |-> 418781, lng |-> -876298],
    \* "Orlando-Kissimmee-Sanford": (28.5383, -81.3792)
    [name |-> <<"O","r","l","a","n","d","o","-","K","i","s","s","i","m","m","e","e","-","S","a","n","f","o","r","d">>,
     lat |-> 285383, lng |-> -813792],
    \* "Seattle-Tacoma-Bellevue": (47.6062, -122.3321)
    [name |-> <<"S","e","a","t","t","l","e","-","T","a","c","o","m","a","-","B","e","l","l","e","v","u","e">>,
     lat |-> 476062, lng |-> -1223321],
    \* "San Francisco-Oakland-Fremont": (37.7749, -122.4194)
    [name |-> <<"S","a","n"," ","F","r","a","n","c","i","s","c","o","-","O","a","k","l","a","n","d","-","F","r","e","m","o","n","t">>,
     lat |-> 377749, lng |-> -1224194],
    \* "San Diego-Chula Vista-Carlsbad": (32.7157, -117.1611)
    [name |-> <<"S","a","n"," ","D","i","e","g","o","-","C","h","u","l","a"," ","V","i","s","t","a","-","C","a","r","l","s","b","a","d">>,
     lat |-> 327157, lng |-> -1171611],
    \* "Austin-Round Rock-San Marcos": (30.2672, -97.7431)
    [name |-> <<"A","u","s","t","i","n","-","R","o","u","n","d"," ","R","o","c","k","-","S","a","n"," ","M","a","r","c","o","s">>,
     lat |-> 302672, lng |-> -977431],
    \* "St. Louis": (38.627, -90.1994)
    [name |-> <<"S","t","."," ","L","o","u","i","s">>,
     lat |-> 386270, lng |-> -901994],
    \* "Sacramento-Roseville-Folsom": (38.5816, -121.4944)
    [name |-> <<"S","a","c","r","a","m","e","n","t","o","-","R","o","s","e","v","i","l","l","e","-","F","o","l","s","o","m">>,
     lat |-> 385816, lng |-> -1214944],
    \* "Phoenix-Mesa-Chandler": (33.4484, -112.074)
    [name |-> <<"P","h","o","e","n","i","x","-","M","e","s","a","-","C","h","a","n","d","l","e","r">>,
     lat |-> 334484, lng |-> -1120740],
    \* "Riverside-San Bernardino-Ontario": (34.0522, -117.2898)
    [name |-> <<"R","i","v","e","r","s","i","d","e","-","S","a","n"," ","B","e","r","n","a","r","d","i","n","o","-","O","n","t","a","r","i","o">>,
     lat |-> 340522, lng |-> -1172898],
    \* "San Antonio-New Braunfels": (29.4241, -98.4936)
    [name |-> <<"S","a","n"," ","A","n","t","o","n","i","o","-","N","e","w"," ","B","r","a","u","n","f","e","l","s">>,
     lat |-> 294241, lng |-> -984936],
    \* "Detroit-Warren-Dearborn": (42.3314, -83.0458)
    [name |-> <<"D","e","t","r","o","i","t","-","W","a","r","r","e","n","-","D","e","a","r","b","o","r","n">>,
     lat |-> 423314, lng |-> -830458],
    \* "Cincinnati": (39.1031, -84.512)
    [name |-> <<"C","i","n","c","i","n","n","a","t","i">>,
     lat |-> 391031, lng |-> -845120],
    \* "Houston-Pasadena-The Woodlands": (29.7604, -95.3698)
    [name |-> <<"H","o","u","s","t","o","n","-","P","a","s","a","d","e","n","a","-","T","h","e"," ","W","o","o","d","l","a","n","d","s">>,
     lat |-> 297604, lng |-> -953698],
    \* "Charlotte-Concord-Gastonia": (35.2271, -80.8431)
    [name |-> <<"C","h","a","r","l","o","t","t","e","-","C","o","n","c","o","r","d","-","G","a","s","t","o","n","i","a">>,
     lat |-> 352271, lng |-> -808431],
    \* "Denver-Aurora-Centennial": (39.7392, -104.9903)
    [name |-> <<"D","e","n","v","e","r","-","A","u","r","o","r","a","-","C","e","n","t","e","n","n","i","a","l">>,
     lat |-> 397392, lng |-> -1049903],
    \* "Los Angeles-Long Beach-Anaheim": (34.0522, -118.2437)
    [name |-> <<"L","o","s"," ","A","n","g","e","l","e","s","-","L","o","n","g"," ","B","e","a","c","h","-","A","n","a","h","e","i","m">>,
     lat |-> 340522, lng |-> -1182437],
    \* "Washington-Arlington-Alexandria": (38.9072, -77.0369)
    [name |-> <<"W","a","s","h","i","n","g","t","o","n","-","A","r","l","i","n","g","t","o","n","-","A","l","e","x","a","n","d","r","i","a">>,
     lat |-> 389072, lng |-> -770369],
    \* "Dallas-Fort Worth-Arlington": (32.7767, -96.797)
    [name |-> <<"D","a","l","l","a","s","-","F","o","r","t"," ","W","o","r","t","h","-","A","r","l","i","n","g","t","o","n">>,
     lat |-> 327767, lng |-> -967970],
    \* "Minneapolis-St. Paul-Bloomington": (44.9778, -93.265)
    [name |-> <<"M","i","n","n","e","a","p","o","l","i","s","-","S","t","."," ","P","a","u","l","-","B","l","o","o","m","i","n","g","t","o","n">>,
     lat |-> 449778, lng |-> -932650],
    \* "Las Vegas-Henderson-North Las Vegas": (36.1699, -115.1398)
    [name |-> <<"L","a","s"," ","V","e","g","a","s","-","H","e","n","d","e","r","s","o","n","-","N","o","r","t","h"," ","L","a","s"," ","V","e","g","a","s">>,
     lat |-> 361699, lng |-> -1151398],
    \* "Miami-Fort Lauderdale-West Palm Beach": (25.7617, -80.1918)
    [name |-> <<"M","i","a","m","i","-","F","o","r","t"," ","L","a","u","d","e","r","d","a","l","e","-","W","e","s","t"," ","P","a","l","m"," ","B","e","a","c","h">>,
     lat |-> 257617, lng |-> -801918]
>>

CITY_MAPPING == <<
    \* "las vegas-henderson-paradise": "las vegas-henderson-north las vegas"
    [key |-> <<"l","a","s"," ","v","e","g","a","s","-","h","e","n","d","e","r","s","o","n","-","p","a","r","a","d","i","s","e">>,
     value |-> <<"l","a","s"," ","v","e","g","a","s","-","h","e","n","d","e","r","s","o","n","-","n","o","r","t","h"," ","l","a","s"," ","v","e","g","a","s">>],
    \* "denver-aurora-lakewood": "denver-aurora-centennial"
    [key |-> <<"d","e","n","v","e","r","-","a","u","r","o","r","a","-","l","a","k","e","w","o","o","d">>,
     value |-> <<"d","e","n","v","e","r","-","a","u","r","o","r","a","-","c","e","n","t","e","n","n","i","a","l">>],
    \* "houston-the woodlands-sugar land": "houston-pasadena-the woodlands"
    [key |-> <<"h","o","u","s","t","o","n","-","t","h","e"," ","w","o","o","d","l","a","n","d","s","-","s","u","g","a","r"," ","l","a","n","d">>,
     value |-> <<"h","o","u","s","t","o","n","-","p","a","s","a","d","e","n","a","-","t","h","e"," ","w","o","o","d","l","a","n","d","s">>],
    \* "austin-round rock-georgetown": "austin-round rock-san marcos"
    [key |-> <<"a","u","s","t","i","n","-","r","o","u","n","d"," ","r","o","c","k","-","g","e","o","r","g","e","t","o","w","n">>,
     value |-> <<"a","u","s","t","i","n","-","r","o","u","n","d"," ","r","o","c","k","-","s","a","n"," ","m","a","r","c","o","s">>],
    \* "miami-fort lauderdale-pompano beach": "miami-fort lauderdale-west palm beach"
    [key |-> <<"m","i","a","m","i","-","f","o","r","t"," ","l","a","u","d","e","r","d","a","l","e","-","p","o","m","p","a","n","o"," ","b","e","a","c","h">>,
     value |-> <<"m","i","a","m","i","-","f","o","r","t"," ","l","a","u","d","e","r","d","a","l","e","-","w","e","s","t"," ","p","a","l","m"," ","b","e","a","c","h">>],
    \* "san francisco-oakland-berkeley": "san francisco-oakland-fremont"
    [key |-> <<"s","a","n"," ","f","r","a","n","c","i","s","c","o","-","o","a","k","l","a","n","d","-","b","e","r","k","e","l","e","y">>,
     value |-> <<"s","a","n"," ","f","r","a","n","c","i","s","c","o","-","o","a","k","l","a","n","d","-","f","r","e","m","o","n","t">>],
    \* "dc_metro": "washington-arlington-alexandria"
    [key |-> <<"d","c","_","m","e","t","r","o">>,
     value |-> <<"w","a","s","h","i","n","g","t","o","n","-","a","r","l","i","n","g","t","o","n","-","a","l","e","x","a","n","d","r","i","a">>],
    \* "atlanta-sandy springs-alpharetta": "atlanta-sandy springs-roswell"
    [key |-> <<"a","t","l","a","n","t","a","-","s","a","n","d","y"," ","s","p","r","i","n","g","s","-","a","l","p","h","a","r","e","t","t","a">>,
     value |-> <<"a","t","l","a","n","t","a","-","s","a","n","d","y"," ","s","p","r","i","n","g","s","-","r","o","s","w","e","l","l">>]
>>

DataFrame(cols, idx, rws) == [columns |-> cols, index |-> idx, rows |-> rws]

\* pandas' default index of a new frame: 0 .. n-1
RangeIndex(n) == [k \in 1..n |-> k - 1]

\* metros as built when the module is loaded (lines 61-64)
MetrosAtLoad ==
    DataFrame({"metro_full", "lat", "lng"},
              RangeIndex(Len(canonical_coords)),
              [k \in 1..Len(canonical_coords) |->
                 [c \in {"metro_full", "lat", "lng"} |->
                    IF c = "metro_full" THEN Val(canonical_coords[k].name)
                    ELSE IF c = "lat" THEN Val(canonical_coords[k].lat)
                    ELSE Val(canonical_coords[k].lng)]])

----------------------------------------------------------------------------
(* DataFrame operations used by the pipeline *)

\* df[col] = df[col].apply(normalize_city)
NormalizeColumn(d, col) ==
    [d EXCEPT !.rows = [k \in 1..Len(d.rows) |->
                          [d.rows[k] EXCEPT ![col] = normalize_city(d.rows[k][col])]]]

\* norm_mapping (line 103): CITY_MAPPING with keys and values normalised
norm_mapping ==
    [k \in 1..Len(CITY_MAPPING) |->
       [key   |-> normalize_city(Val(CITY_MAPPING[k].key)),
        value |-> normalize_city(Val(CITY_MAPPING[k].value))]]

\* Series.replace(norm_mapping) on one cell: an exact match of a key is
\* replaced by that key's value (for a repeated key the last entry wins)
replace(c) ==
    LET hits == {k \in 1..Len(norm_mapping) : norm_mapping[k].key = c}
    IN  IF hits = {} THEN c
        ELSE norm_mapping[CHOOSE k \in hits : \A j \in hits : j <= k].value

\* df[col] = df[col].replace(norm_mapping)
ReplaceColumn(d, col) ==
    [d EXCEPT !.rows = [k \in 1..Len(d.rows) |->
                          [d.rows[k] EXCEPT ![col] = replace(d.rows[k][col])]]]

\* the rows of d at the positions of keep, in their original order
RECURSIVE TakeRows(_, _, _)
TakeRows(sq, keep, k) ==
    IF k > Len(sq) THEN <<>>
    ELSE (IF k \in keep THEN <<sq[k]>> ELSE <<>>) \o TakeRows(sq, keep, k + 1)

\* boolean-mask selection df[mask]: rows and their index labels are kept
SelectRows(d, keep) ==
    [d EXCEPT !.index = TakeRows(d.index, keep, 1),
              !.rows  = TakeRows(d.rows, keep, 1)]

\* left.merge(right, how="left", left_on=lk, right_on=rk): a column name
\* that both frames have gets the suffix _x (left) or _y (right); every left
\* row is paired with each right row of equal key, in right order, or with
\* missing values when there is none; the result has a fresh RangeIndex
MergeLeft(left, right, lk, rk) ==
    LET overlap == left.columns \cap right.columns
        LName(c) == IF c \in overlap THEN c \o "_x" ELSE c
        RName(c) == IF c \in overlap THEN c \o "_y" ELSE c
        cols == {LName(c) : c \in left.columns} \cup {RName(c) : c \in right.columns}
        Origin(n) ==
            IF \E c \in left.columns : LName(c) = n
            THEN [side |-> "left", col |-> CHOOSE c \in left.columns : LName(c) = n]
            ELSE [side |-> "right", col |-> CHOOSE c \in right.columns : RName(c) = n]
        Joined(l, r) ==
            [n \in cols |-> IF Origin(n).side = "left" THEN l[Origin(n).col]
                            ELSE r[Origin(n).col]]
        Unmatched(l) ==
            [n \in cols |-> IF Origin(n).side = "left" THEN l[Origin(n).col] ELSE NA]
        Matches(l) == {j \in 1..Len(right.rows) : right.rows[j][rk] = l[lk]}
        RowsFor(l) ==
            IF Matches(l) = {} THEN <<Unmatched(l)>>
            ELSE LET m == TakeRows(right.rows, Matches(l), 1)
                 IN  [j \in 1..Len(m) |-> Joined(l, m[j])]
        RECURSIVE Build(_)
        Build(k) == IF k > Len(left.rows) THEN <<>>
                    ELSE RowsFor(left.rows[k]) \o Build(k + 1)
        out == Build(1)
    IN  DataFrame(cols, RangeIndex(Len(out)), out)

\* df[cols]: the frame restricted to some of its columns
Project(d, cols) ==
    DataFrame(cols, d.index,
              [k \in 1..Len(d.rows) |-> [c \in cols |-> d.rows[k][c]]])

\* df.drop(columns=names, errors="ignore")
DropColumns(d, names) == Project(d, d.columns \ names)

\* a raised exception, in place of a returned frame
Raise(e) == [raised |-> e]
IsRaise(r) == "raised" \in DOMAIN r

----------------------------------------------------------------------------
(* The pipeline's functions.  clean_and_merge gives back three things: ret, *)
(* the returned frame or the raised error; df, the caller's frame object   *)
(* as the call leaves it (line 101 assigns into it); and metros, the       *)
(* module-level table as the call leaves it (line 117 assigns into it).    *)

\* lines 101-104: city_full normalised, then rewritten by the alias table
NormalizeCityColumn(d) ==
    ReplaceColumn(NormalizeColumn(d, "city_full"), "city_full")

\* the dtype check of merge (lines 118-119): a city_full column that holds
\* only missing values is a float64 column (apply keeps NaN as it is), and
\* pandas refuses to join it to the text column metro_full unless the left
\* frame has no row
KeyDtypesClash(d) ==
    /\ Len(d.rows) >= 1
    /\ \A k \in 1..Len(d.rows) : isna(d.rows[k]["city_full"])

\* clean_and_merge without the alias rewrite of line 104
clean_and_merge_no_alias(d, m) ==
    IF "city_full" \notin d.columns THEN [ret |-> d, df |-> d, metros |-> m]
    ELSE LET d1 == NormalizeColumn(d, "city_full")
         IN  IF {"lat", "lng"} \subseteq d1.columns
             THEN [ret |-> d1, df |-> d1, metros |-> m]
             ELSE LET m1 == NormalizeColumn(m, "metro_full")
                      merged == DropColumns(
                                    MergeLeft(d1, Project(m1, {"metro_full", "lat", "lng"}),
                                              "city_full", "metro_full"),
                                    {"metro_full"})
                  IN  IF KeyDtypesClash(d1)
                      THEN [ret |-> Raise("ValueError"), df |-> d1, metros |-> m1]
                      ELSE IF "lat" \notin merged.columns
                           THEN [ret |-> Raise("KeyError"), df |-> d1, metros |-> m1]
                           ELSE [ret |-> merged, df |-> d1, metros |-> m1]

\* clean_and_merge without the already-present check of lines 107-109
clean_and_merge_no_skip(d, m) ==
    IF "city_full" \notin d.columns THEN [ret |-> d, df |-> d, metros |-> m]
    ELSE LET d1 == NormalizeCityColumn(d)
             m1 == NormalizeColumn(m, "metro_full")
             merged == DropColumns(
                           MergeLeft(d1, Project(m1, {"metro_full", "lat", "lng"}),
                                     "city_full", "metro_full"),
                           {"metro_full"})
         IN  IF KeyDtypesClash(d1)
             THEN [ret |-> Raise("ValueError"), df |-> d1, metros |-> m1]
             ELSE IF "lat" \notin merged.columns
                  THEN [ret |-> Raise("KeyError"), df |-> d1, metros |-> m1]
                  ELSE [ret |-> merged, df |-> d1, metros |-> m1]

\* clean_and_merge with the already-present check moved before lines 101-104
clean_and_merge_skip_first(d, m) ==
    IF "city_full" \notin d.columns THEN [ret |-> d, df |-> d, metros |-> m]
    ELSE IF {"lat", "lng"} \subseteq d.columns THEN [ret |-> d, df |-> d, metros |-> m]
    ELSE LET d1 == NormalizeCityColumn(d)
             m1 == NormalizeColumn(m, "metro_full")
             merged == DropColumns(
                           MergeLeft(d1, Project(m1, {"metro_full", "lat", "lng"}),
                                     "city_full", "metro_full"),
                           {"metro_full"})
         IN  IF KeyDtypesClash(d1)
             THEN [ret |-> Raise("ValueError"), df |-> d1, metros |-> m1]
             ELSE IF "lat" \notin merged.columns
                  THEN [ret |-> Raise("KeyError"), df |-> d1, metros |-> m1]
                  ELSE [ret |-> merged, df |-> d1, metros |-> m1]

\* clean_and_merge (lines 90-127)
clean_and_merge(d, m) ==
    IF "city_full" \notin d.columns
    THEN [ret |-> d, df |-> d, metros |-> m]                          \* 96-98
    ELSE LET d1 == NormalizeCityColumn(d)                             \* 101-104
         IN  IF {"lat", "lng"} \subseteq d1.columns
             THEN [ret |-> d1, df |-> d1, metros |-> m]               \* 107-109
             ELSE IF \/ "metro_full" \notin m.columns
                     \/ ~({"lat", "lng"} \subseteq m.columns)
             THEN [ret |-> d1, df |-> d1, metros |-> m]               \* 113-115
             ELSE LET m1 == NormalizeColumn(m, "metro_full")  \* 117
                      merged == DropColumns(                          \* 118-120
                                    MergeLeft(d1, Project(m1, {"metro_full", "lat", "lng"}),
                                              "city_full", "metro_full"),
                                    {"metro_full"})
                  IN  IF KeyDtypesClash(d1)
                      THEN [ret |-> Raise("ValueError"), df |-> d1, metros |-> m1]
                      ELSE IF "lat" \notin merged.columns                  \* 122: df["lat"]
                           THEN [ret |-> Raise("KeyError"), df |-> d1, metros |-> m1]
                           ELSE [ret |-> merged, df |-> d1, metros |-> m1]

\* the comparison key of drop_duplicates: df.columns.difference(["date", "year"])
KeyColumns(d) == d.columns \ {"date", "year"}

\* two rows agree on every column of cols (a missing value equals a missing value)
SameOn(r1, r2, cols) == \A c \in cols : r1[c] = r2[c]

\* drop_duplicates with keep="first" in place of keep=False
drop_duplicates_keep_first(d) ==
    SelectRows(d, {k \in 1..Len(d.rows) :
                     ~\E j \in 1..(k - 1) : SameOn(d.rows[j], d.rows[k], KeyColumns(d))})

\* drop_duplicates (lines 131-137), keep=False.  The frames of this model
\* always have a column outside date/year, so the key is never empty.
drop_duplicates(d) ==
    SelectRows(d, {k \in 1..Len(d.rows) :
                     ~\E j \in (1..Len(d.rows)) \ {k} :
                          SameOn(d.rows[j], d.rows[k], KeyColumns(d))})

OutlierThreshold == 19000000

\* the mask df["median_list_price"] <= 19_000_000: False for a missing value
WithinThreshold(c) == IF isna(c) THEN FALSE ELSE c.v <= OutlierThreshold

\* remove_outliers (lines 140-148)
remove_outliers(d) ==
    IF "median_list_price" \notin d.columns THEN d
    ELSE SelectRows(d, {k \in 1..Len(d.rows) :
                          WithinThreshold(d.rows[k]["median_list_price"])})

\* a path with no file behind it
NoFile == [nofile |-> TRUE]
IsFile(f) == "nofile" \notin DOMAIN f

\* df.to_csv(out_path, index=False): the columns and the rows, no index
to_csv(d) == [columns |-> d.columns, rows |-> d.rows]

\* preprocess_split (lines 151-171) on the frame read_csv gives for the split,
\* or on no file.  written is the file put at clean_<split>.csv, NoFile if
\* the call raised before line 169.
preprocess_split(file, m) ==
    IF ~IsFile(file)
    THEN [ret |-> Raise("FileNotFoundError"), written |-> NoFile, metros |-> m]  \* 162
    ELSE LET c == clean_and_merge(file, m)                                       \* 164
         IN  IF IsRaise(c.ret)
             THEN [ret |-> c.ret, written |-> NoFile, metros |-> c.metros]
             ELSE LET out == remove_outliers(drop_duplicates(c.ret))             \* 165-166
                  IN  [ret |-> out, written |-> to_csv(out), metros |-> c.metros] \* 169-171

----------------------------------------------------------------------------
(* Input frames *)

MaxRows == 3
MaxCityRows == 2

\* "Denver-Aurora-Lakewood"
DenverAuroraLakewood ==
    <<"D","e","n","v","e","r","-","A","u","r","o","r","a","-","L","a","k","e","w","o","o","d">>

\* str.upper()
upper(str) == [k \in 1..Len(str) |-> UpperChar(str[k])]
\* every hyphen written as the dash d
WithDash(str, d) == [k \in 1..Len(str) |-> IF str[k] = "-" THEN d ELSE str[k]]
\* every space doubled, and whitespace put before and after
Spaced(str) ==
    LET RECURSIVE Dbl(_)
        Dbl(k) == IF k > Len(str) THEN <<>>
                  ELSE (IF str[k] = " " THEN <<" ", " ">> ELSE <<str[k]>>) \o Dbl(k + 1)
    IN  <<" ">> \o Dbl(1) \o <<"TAB">>

\* the spellings of one city name: case, dash and whitespace variants
Variants(str) ==
    LET cased == {str, upper(str), lower(str)}
        dashed == {WithDash(t, d) : t \in cased, d \in Dashes}
    IN  dashed \cup {Spaced(t) : t \in dashed}

\* every key of CITY_MAPPING, as the file has it and in every variant
AliasSpellings ==
    UNION {Variants(CITY_MAPPING[k].key) : k \in 1..Len(CITY_MAPPING)}
    \cup Variants(DenverAuroraLakewood)

\* the values a column takes in the input frames
Dom(c) ==
    CASE c = "city_full" ->
           {NA, Val(Spaced(WithDash(DenverAuroraLakewood, "EN"))),
            Val(canonical_coords[2].name), Val(<<"S","a","l","e","m">>)}
      [] c = "lat" -> {NA, Val(450000)}
      [] c = "lng" -> {NA, Val(-930000)}
      [] c = "median_list_price" ->
           {NA, Val(OutlierThreshold), Val(OutlierThreshold + 1)}
      [] c = "year" -> {Val(2020), Val(2021)}
      [] c = "date" -> {Val(<<"2","0","2","0","-","0","1","-","3","1">>)}
      [] c = "zipcode" -> {Val(15201), Val(80202)}

RECURSIVE RowsOver(_)
RowsOver(cols) ==
    IF cols = {} THEN {<<>>}
    ELSE LET c == CHOOSE x \in cols : TRUE
         IN  {(c :> v) @@ r : v \in Dom(c), r \in RowsOver(cols \ {c})}

\* the frames read_csv gives: the columns cols, at most n rows, a RangeIndex
TablesOver(cols, n) ==
    {DataFrame(cols, RangeIndex(Len(rs)), rs) :
        rs \in UNION {[1..k -> RowsOver(cols)] : k \in 0..n}}

\* column sets of the input frames: the city and coordinate columns
CityColumnSets == SUBSET {"city_full", "lat", "lng"} \ {{}}

\* key columns (zipcode, price) with or without the temporal columns
KeyColumnSets ==
    {ks \cup ts : ks \in (SUBSET {"zipcode", "median_list_price"} \ {{}}),
                  ts \in SUBSET {"year", "date"}}

----------------------------------------------------------------------------
(* SpecFn: the three transforms called on a frame, one after another, each *)
(* on what the call before it returned (as in "df = f(df)")                *)

RunFieldsIdle ==
    /\ s0 = NA /\ s = NA
    /\ raw = <<>> /\ processed = <<>> /\ splits = <<>> /\ pos = 0 /\ status = "none"

InitFn ==
    /\ \/ \E cols \in CityColumnSets : arg \in TablesOver(cols, MaxCityRows)
       \/ \E cols \in KeyColumnSets : arg \in TablesOver(cols, MaxRows)
       \/ \E c \in AliasSpellings :
             arg = DataFrame({"city_full"}, RangeIndex(1), <<[n \in {"city_full"} |-> Val(c)]>>)
    /\ df = arg
    /\ ret = arg
    /\ op = "load"
    /\ metros = MetrosAtLoad
    /\ RunFieldsIdle

\* the frame the next call is made on: the last result, or after an error
\* the frame the failed call was given
Current == IF IsRaise(ret) THEN df ELSE ret

CallCleanAndMerge ==
    \E r \in {clean_and_merge(Current, metros)} :
        /\ arg' = Current
        /\ df' = r.df
        /\ ret' = r.ret
        /\ metros' = r.metros
        /\ op' = "clean_and_merge"
        /\ UNCHANGED <<s0, s, raw, processed, splits, pos, status>>

CallDropDuplicates ==
    /\ arg' = Current
    /\ df' = Current
    /\ ret' = drop_duplicates(Current)
    /\ op' = "drop_duplicates"
    /\ UNCHANGED <<s0, s, metros, raw, processed, splits, pos, status>>

CallRemoveOutliers ==
    /\ arg' = Current
    /\ df' = Current
    /\ ret' = remove_outliers(Current)
    /\ op' = "remove_outliers"
    /\ UNCHANGED <<s0, s, metros, raw, processed, splits, pos, status>>

NextFn == CallCleanAndMerge \/ CallDropDuplicates \/ CallRemoveOutliers

SpecFn == InitFn /\ [][NextFn]_vars

\* the positions of frame d whose row agrees with row k on the comparison key
KeyGroup(d, k) == {j \in 1..Len(d.rows) : SameOn(d.rows[j], d.rows[k], KeyColumns(d))}

\* the position in frame d of index label l (labels are distinct)
PosOf(d, l) == CHOOSE k \in 1..Len(d.index) : d.index[k] = l
Labels(d) == {d.index[k] : k \in 1..Len(d.index)}

\* out holds rows of inp under their own labels, in inp's order
IsSubFrame(out, inp) ==
    /\ out.columns = inp.columns
    /\ Len(out.index) = Len(out.rows)
    /\ Labels(out) \subseteq Labels(inp)
    /\ \A p \in 1..Len(out.rows) : out.rows[p] = inp.rows[PosOf(inp, out.index[p])]
    /\ \A p, q \in 1..Len(out.rows) :
          p < q => PosOf(inp, out.index[p]) < PosOf(inp, out.index[q])

C5_OutlierIff ==
    op = "remove_outliers" =>
        IF "median_list_price" \notin arg.columns THEN ret = arg
        ELSE /\ IsSubFrame(ret, arg)
             /\ \A k \in 1..Len(arg.rows) :
                   arg.index[k] \notin Labels(ret) <=>
                      /\ ~isna(arg.rows[k]["median_list_price"])
                      /\ arg.rows[k]["median_list_price"].v > OutlierThreshold

\* the spellings of the key of each alias entry
AliasKeySpellings ==
    [i \in 1..Len(CITY_MAPPING) |->
       Variants(CITY_MAPPING[i].key)
       \cup (IF lower(DenverAuroraLakewood) = CITY_MAPPING[i].key
             THEN Variants(DenverAuroraLakewood) ELSE {})]

\* the entries of canonical_coords named by the target of each alias entry
TargetCoords ==
    [i \in 1..Len(CITY_MAPPING) |->
       {k \in 1..Len(canonical_coords) :
           lower(canonical_coords[k].name) = CITY_MAPPING[i].value}]

EveryTargetHasCoords == \A i \in 1..Len(CITY_MAPPING) : TargetCoords[i] # {}

\* C6: on a frame that has city_full, lat and lng, clean_and_merge changes no
\* lat or lng value, adds no column, and adds or removes no row; so a frame
\* it has enriched is not enriched again.
C6_CoordinatesUntouched ==
    (op = "clean_and_merge" /\ {"city_full", "lat", "lng"} \subseteq arg.columns) =>
        /\ ~IsRaise(ret)
        /\ ret.columns = arg.columns
        /\ ret.index = arg.index
        /\ Len(ret.rows) = Len(arg.rows)
        /\ \A k \in 1..Len(arg.rows) :
              /\ ret.rows[k]["lat"] = arg.rows[k]["lat"]
              /\ ret.rows[k]["lng"] = arg.rows[k]["lng"]

\* clean_and_merge called again on a frame it had given Denver's coordinates
C6_Witness ==
    /\ op = "clean_and_merge"
    /\ {"city_full", "lat", "lng"} \subseteq arg.columns
    /\ ~IsRaise(ret)
    /\ \E k \in 1..Len(ret.rows) :
          /\ ret.rows[k]["lat"] = Val(397392)
          /\ ret.rows[k]["lng"] = Val(-1049903)
    /\ \E k \in 1..Len(ret.rows) : isna(ret.rows[k]["lat"])

\* C8: on a frame with city_full and no coordinate column, every record whose
\* city is a spelling of a CITY_MAPPING key gets the coordinates the metro
\* table has for that key's target; "Denver-Aurora-Lakewood" gets
\* (39.7392, -104.9903); every alias target has coordinates.
C8_AliasGetsTargetCoordinates ==
    /\ EveryTargetHasCoords
    /\ (/\ op = "clean_and_merge"
        /\ "city_full" \in arg.columns
        /\ "lat" \notin arg.columns
        /\ "lng" \notin arg.columns) =>
           /\ \A k \in 1..Len(arg.rows) : \A i \in 1..Len(CITY_MAPPING) :
                 (/\ ~isna(arg.rows[k]["city_full"])
                  /\ arg.rows[k]["city_full"].v \in AliasKeySpellings[i]) =>
                     /\ ~IsRaise(ret)
                     /\ Len(ret.rows) = Len(arg.rows)
                     /\ {"lat", "lng"} \subseteq ret.columns
                     /\ \A t \in TargetCoords[i] :
                           /\ ret.rows[k]["lat"] = Val(canonical_coords[t].lat)
                           /\ ret.rows[k]["lng"] = Val(canonical_coords[t].lng)
           /\ \A k \in 1..Len(arg.rows) :
                 arg.rows[k]["city_full"] = Val(DenverAuroraLakewood) =>
                     /\ ~IsRaise(ret)
                     /\ ret.rows[k]["lat"] = Val(397392)
                     /\ ret.rows[k]["lng"] = Val(-1049903)

\* the scenario's record, enriched
C8_Witness ==
    /\ op = "clean_and_merge"
    /\ arg.columns = {"city_full"}
    /\ Len(arg.rows) = 1
    /\ arg.rows[1]["city_full"] = Val(DenverAuroraLakewood)
    /\ ~IsRaise(ret)
    /\ ret.rows[1]["lat"] = Val(397392)
    /\ ret.rows[1]["lng"] = Val(-1049903)

\* clean_and_merge took one of its graceful skips on the frame arg
SkipTaken ==
    /\ op = "clean_and_merge"
    /\ \/ "city_full" \notin arg.columns
       \/ {"lat", "lng"} \subseteq arg.columns
       \/ ~({"metro_full", "lat", "lng"} \subseteq metros.columns)

\* C9 as claimed: a graceful skip of clean_and_merge is a pure pass-through,
\* the returned frame and the caller's frame equal the input in every field,
\* city_full included.
C9_SkipIsPassThrough ==
    SkipTaken => (ret = arg /\ df = arg)

\* C9 as amended: a skip for a missing city_full column returns the input
\* unchanged; a skip for lat and lng already present returns the caller's
\* frame, changed in place, equal to the input in columns, index, rows and
\* every field but city_full, which holds the normalised, alias-resolved
\* city; the metro table never lacks a column, so the third skip never runs.
C9_SkipKeepsAllButCity ==
    /\ {"metro_full", "lat", "lng"} \subseteq metros.columns
    /\ SkipTaken =>
          /\ ret = df
          /\ ret.columns = arg.columns
          /\ ret.index = arg.index
          /\ Len(ret.rows) = Len(arg.rows)
          /\ \A k \in 1..Len(arg.rows) : \A c \in arg.columns :
                ret.rows[k][c] = IF c = "city_full"
                                 THEN replace(normalize_city(arg.rows[k][c]))
                                 ELSE arg.rows[k][c]

\* the already-present skip taken on a frame whose city it rewrote
C9_Witness ==
    /\ SkipTaken
    /\ {"city_full", "lat", "lng"} \subseteq arg.columns
    /\ ret # arg
    /\ \E k \in 1..Len(arg.rows) :
          /\ arg.rows[k]["city_full"] = Val(Spaced(WithDash(DenverAuroraLakewood, "EN")))
          /\ ret.rows[k]["city_full"] = Val(CITY_MAPPING[2].value)

\* C10: the metro table is read-only, after any calls it holds what it held
\* when the module was loaded (the alias table is never assigned to).
C10_MetrosReadOnly == metros = MetrosAtLoad

----------------------------------------------------------------------------
(* Spec: run_preprocess over the raw directory (lines 174-180)             *)

MaxRunRows == 2

SplitNames == {"train", "eval", "holdout"}

\* values of the splits parameter: the default (line 175) and two others
SplitOrders == {<<"train", "eval", "holdout">>, <<"holdout", "train">>, <<"eval">>}

\* the values a column takes in the raw files
RawDom(c) ==
    CASE c = "city_full" -> {Val(DenverAuroraLakewood), Val(<<"S","a","l","e","m">>)}
      [] c = "lat" -> {Val(450000)}
      [] c = "lng" -> {Val(-930000)}
      [] c = "median_list_price" -> {Val(OutlierThreshold), Val(OutlierThreshold + 1)}
      [] c = "year" -> {Val(2020), Val(2021)}

RECURSIVE RawRowsOver(_)
RawRowsOver(cols) ==
    IF cols = {} THEN {<<>>}
    ELSE LET c == CHOOSE x \in cols : TRUE
         IN  {(c :> v) @@ r : v \in RawDom(c), r \in RawRowsOver(cols \ {c})}

\* column sets of the raw files: any of the city, coordinate and price
\* columns (at least one), with or without year
RawColumnSets ==
    {ks \cup ts : ks \in (SUBSET {"city_full", "lat", "lng", "median_list_price"} \ {{}}),
                  ts \in SUBSET {"year"}}

\* what read_csv gives for a raw file
RawTables(cols) ==
    {DataFrame(cols, RangeIndex(Len(rs)), rs) :
        rs \in UNION {[1..k -> RawRowsOver(cols)] : k \in 0..MaxRunRows}}

Init ==
    /\ \E cols \in RawColumnSets : \E t \in RawTables(cols) :
          raw \in [SplitNames -> {t, NoFile}]
    /\ splits \in SplitOrders
    /\ processed = [n \in SplitNames |-> NoFile]
    /\ pos = 1
    /\ status = "running"
    /\ metros = MetrosAtLoad
    /\ arg = NoFile /\ ret = NoFile /\ df = NoFile /\ op = "load"
    /\ s0 = NA /\ s = NA

\* one turn of the loop, with an error of the split caught and the loop going on
RunPreprocessStepContinue ==
    /\ status = "running"
    /\ \E r \in {preprocess_split(raw[splits[pos]], metros)} :
           /\ arg' = raw[splits[pos]]
           /\ ret' = r.ret
           /\ op' = "preprocess_split"
           /\ metros' = r.metros
           /\ processed' = IF IsRaise(r.ret) THEN processed
                           ELSE [processed EXCEPT ![splits[pos]] = r.written]
           /\ pos' = pos + 1
           /\ status' = IF pos = Len(splits) THEN "done" ELSE "running"
    /\ UNCHANGED <<s0, s, df, raw, splits>>

\* one turn of the loop of run_preprocess (lines 179-180): preprocess_split
\* on the next split; an error it raises leaves the loop and run_preprocess
RunPreprocessStep ==
    /\ status = "running"
    /\ \E r \in {preprocess_split(raw[splits[pos]], metros)} :
           /\ arg' = raw[splits[pos]]
           /\ ret' = r.ret
           /\ op' = "preprocess_split"
           /\ metros' = r.metros
           /\ IF IsRaise(r.ret)
              THEN /\ status' = "raised"
                   /\ UNCHANGED <<processed, pos>>
              ELSE /\ processed' = [processed EXCEPT ![splits[pos]] = r.written]
                   /\ pos' = pos + 1
                   /\ status' = IF pos = Len(splits) THEN "done" ELSE "running"
    /\ UNCHANGED <<s0, s, df, raw, splits>>

Next == RunPreprocessStep

Spec == Init /\ [][Next]_vars

Terminated == status \in {"done", "raised"}

\* preprocess_split completes on the file: it is there and no step raises
Processable(file) == IsFile(file) /\ ~IsRaise(preprocess_split(file, metros).ret)

C4_NoErrorOnAnyColumns ==
    (op = "preprocess_split" /\ IsFile(arg)) =>
        /\ ~IsRaise(ret)
        /\ IsFile(processed[splits[pos - 1]])

\* rows j and k of frame d differ in year and in nothing else
DifferOnlyInYear(d, j, k) ==
    /\ "year" \in d.columns
    /\ d.rows[j]["year"] # d.rows[k]["year"]
    /\ SameOn(d.rows[j], d.rows[k], d.columns \ {"year"})

\* row k of frame d is no price outlier
NoOutlier(d, k) ==
    "median_list_price" \in d.columns => WithinThreshold(d.rows[k]["median_list_price"])

\* C1: in the output of preprocess_split two input rows identical but for
\* year are both retained, two input rows identical in year too are both removed.
C1_YearPairsRetained ==
    (op = "preprocess_split" /\ IsFile(arg) /\ ~IsRaise(ret)) =>
        \A j, k \in 1..Len(arg.rows) :
            /\ (/\ DifferOnlyInYear(arg, j, k)
                /\ NoOutlier(arg, j) /\ NoOutlier(arg, k)
                /\ KeyGroup(arg, j) = {j, k}) =>
                   {arg.index[j], arg.index[k]} \subseteq Labels(ret)
            /\ (j # k /\ arg.rows[j] = arg.rows[k]) =>
                   {arg.index[j], arg.index[k]} \cap Labels(ret) = {}
====
